---- MODULE Spec2Model ----
(***************************************************************************)
(* Model of run_cryosamba.py: the validated input collector, the           *)
(* accelerator selector, the experiment store and the menu navigator.      *)
(*                                                                         *)
(* Two specifications share the variables:                                 *)
(*   SpecAsk  one call of ask_user_int / ask_user_int_multiple, fed with   *)
(*            operator tokens (character strings);                         *)
(*   Spec     the interactive session started by main().                   *)
(***************************************************************************)
EXTENDS Integers, Sequences, FiniteSets, TLC

VARIABLES
    \* ---- one call of ask_user_int / ask_user_int_multiple (SpecAsk) ----
    askCall,      \* the arguments of the call
    askPc,        \* "idle" | "prompt" | "returned" | "raised"
    askTok,       \* the last line the operator typed
    askRet,       \* << >> or <<v>>: the value returned
    askMsg,       \* the last message printed by the loop
    askPrompts,   \* number of prompts answered so far
    \* ---- one call of setup_environment (SpecEnv) ----
    envPc,        \* "idle" | "start" | "prompt" | "loop" | "done"
    env_name,     \* the argument of the call
    env_run_cmd,  \* the local run_cmd: the answer to "Enter (y/n): "
    envIter,      \* iterations of the y/n loop that did not leave it
    envRuns,      \* the commands handed to subprocess.run, with exit status
    envEcho,      \* the last message written by typer.echo
    \* ---- the interactive session (Spec) ----
    pc,           \* the prompt the session is blocked at
    depth,        \* number of active function calls (call-stack depth)
    dirs,         \* directories that exist under RUNS_DIR (paths), root = << >>
    files,        \* path -> content of the files under RUNS_DIR
    exp_name,     \* local exp_name of the active flow
    mode,         \* argument of run_cryosamba
    cfg,          \* values collected so far by generate_experiment
    adv_index,    \* position in the advanced block (0 outside it)
    lst_available_gpus, \* select_gpus: identifiers still available
    select_gpus,  \* select_gpus: identifiers selected, in order
    reported,     \* identifiers parsed from the device query
    selected_gpus,\* run_cryosamba: result of select_gpus (<< >> before)
    proc,         \* << >> or <<command>>: the external process running
    returncode,   \* << >> or <<n>>: exit status of the last external process
    shown,        \* << >> or <<S>>: the experiment list displayed last
    input,        \* the last line the operator typed
    msg           \* the last message written to the interactive surface

askVars == <<askCall, askPc, askTok, askRet, askMsg, askPrompts>>
navVars == <<pc, depth, dirs, files, exp_name, mode, cfg, adv_index,
             lst_available_gpus,
             select_gpus, reported, selected_gpus, proc, returncode, shown,
             input, msg>>
envVars == <<envPc, env_name, env_run_cmd, envIter, envRuns, envEcho>>
vars == <<askVars, navVars, envVars>>

(***************************************************************************)
(* Bounds                                                                  *)
(***************************************************************************)
MaxTokLen == 3      \* longest line typed at an integer prompt
MaxPrompts == 2     \* prompts answered in one call of the collector
MaxDepth == 10      \* call-stack depth the session is followed to
MaxIterations == 3  \* iterations the y/n loop of setup_environment is followed to

(***************************************************************************)
(* Validated Input Collector                                               *)
(***************************************************************************)
DigitChars == <<"0", "1", "2", "3", "4", "5", "6", "7", "8", "9">>

IsDigit(c) == \E i \in 1..10 : DigitChars[i] = c

DigitVal(c) == (CHOOSE i \in 1..10 : DigitChars[i] = c) - 1

RECURSIVE DigitsVal(_)
DigitsVal(s) ==
    IF s = << >> THEN 0
    ELSE 10 * DigitsVal(SubSeq(s, 1, Len(s) - 1)) + DigitVal(s[Len(s)])

AllDigits(s) == Len(s) >= 1 /\ \A i \in 1..Len(s) : IsDigit(s[i])

\* A value handed to int(): a line typed by the operator (a string of
\* characters) or the default of the prompt (already an integer).
StrVal(s) == [t |-> "str", s |-> s, n |-> 0]
IntVal(n) == [t |-> "int", s |-> << >>, n |-> n]

\* int(x): <<n>> when x converts, << >> when int() raises ValueError.
\* A string converts when it is an optional sign followed by digits.
int(x) ==
    IF x.t = "int" THEN <<x.n>>
    ELSE IF x.s # << >> /\ x.s[1] \in {"-", "+"}
         THEN IF AllDigits(Tail(x.s))
              THEN <<(IF x.s[1] = "-" THEN -1 ELSE 1) * DigitsVal(Tail(x.s))>>
              ELSE << >>
         ELSE IF AllDigits(x.s) THEN <<DigitsVal(x.s)>> ELSE << >>

\* typer.prompt(prompt, default=default): an empty line yields the default.
ask_user(tok, default) == IF tok = << >> THEN IntVal(default) ELSE StrVal(tok)

Outcome(ret, m, raised) == [ret |-> ret, msg |-> m, raised |-> raised]

\* A variant that lets ValueError escape the loop.
ask_user_int_NoExcept(tok, min_value, max_value, default) ==
    LET value == int(ask_user(tok, default)) IN
    IF value = << >> THEN Outcome(<< >>, "none", TRUE)
    ELSE IF min_value <= value[1] /\ value[1] <= max_value
         THEN Outcome(value, "none", FALSE)
         ELSE Outcome(<< >>, "range", FALSE)

\* One iteration of the loop of ask_user_int: ret = <<v>> when it returns v.
ask_user_int(tok, min_value, max_value, default) ==
    LET value == int(ask_user(tok, default)) IN
    IF value = << >> THEN Outcome(<< >>, "format", FALSE)
    ELSE IF min_value <= value[1] /\ value[1] <= max_value
         THEN Outcome(value, "none", FALSE)
         ELSE Outcome(<< >>, "range", FALSE)

\* A variant that forgets the multiple-of test.
ask_user_int_multiple_NoMod(tok, min_value, max_value, multiple, default) ==
    LET value == int(ask_user(tok, default)) IN
    IF value = << >> THEN Outcome(<< >>, "format", FALSE)
    ELSE IF min_value <= value[1] /\ value[1] <= max_value
         THEN Outcome(value, "none", FALSE)
         ELSE Outcome(<< >>, "range", FALSE)

\* One iteration of the loop of ask_user_int_multiple.
ask_user_int_multiple(tok, min_value, max_value, multiple, default) ==
    LET value == int(ask_user(tok, default)) IN
    IF value = << >> THEN Outcome(<< >>, "format", FALSE)
    ELSE IF min_value <= value[1] /\ value[1] <= max_value
         THEN IF value[1] % multiple # 0
              THEN Outcome(<< >>, "multiple", FALSE)
              ELSE Outcome(value, "none", FALSE)
         ELSE Outcome(<< >>, "range", FALSE)

(***************************************************************************)
(* SpecAsk: one call of the collector, fed with lines typed by the         *)
(* operator.                                                               *)
(***************************************************************************)
\* Characters the operator types at an integer prompt.
AskChars == {"-", "x", "0", "2", "4", "7"}

RECURSIVE SeqsUpTo(_, _)
SeqsUpTo(S, n) ==
    IF n = 0 THEN {<< >>}
    ELSE LET shorter == SeqsUpTo(S, n - 1) IN
         shorter \cup {Append(s, c) : s \in {t \in shorter : Len(t) = n - 1}, c \in S}

AskTokens == SeqsUpTo(AskChars, MaxTokLen)

Call(fn, lo, hi, multiple, default) ==
    [fn |-> fn, min_value |-> lo, max_value |-> hi, multiple |-> multiple,
     default |-> default]

\* Calls generate_experiment makes (multiple = 1 where the callee has none).
AskCalls ==
    { Call("ask_user_int", 1, 40, 1, 3),
      Call("ask_user_int", 0, 512, 1, 4),
      Call("ask_user_int_multiple", 2, 256, 2, 8),
      Call("ask_user_int_multiple", 0, 512, 4, 16),
      Call("ask_user_int_multiple", 32, 1024, 32, 256) }

NoCall == Call("none", 0, 0, 1, 0)

AskApply(o, tok) ==
    /\ askTok' = tok
    /\ askPrompts' = askPrompts + 1
    /\ askRet' = o.ret
    /\ askMsg' = IF o.msg = "none" THEN askMsg ELSE o.msg
    /\ askPc' = IF o.raised THEN "raised"
                ELSE IF o.ret # << >> THEN "returned" ELSE "prompt"
    /\ UNCHANGED <<askCall, navVars, envVars>>

AskInt ==
    /\ askPc = "prompt"
    /\ askCall.fn = "ask_user_int"
    /\ askPrompts < MaxPrompts
    /\ \E tok \in AskTokens :
         AskApply(ask_user_int(tok, askCall.min_value, askCall.max_value,
                               askCall.default), tok)

AskIntMultiple ==
    /\ askPc = "prompt"
    /\ askCall.fn = "ask_user_int_multiple"
    /\ askPrompts < MaxPrompts
    /\ \E tok \in AskTokens :
         AskApply(ask_user_int_multiple(tok, askCall.min_value,
                                        askCall.max_value, askCall.multiple,
                                        askCall.default), tok)

(***************************************************************************)
(* Strings are sequences of lexemes: a lexeme is a separator (".", "/",    *)
(* ",", "\n") or a word that contains none of them.                        *)
(***************************************************************************)
RECURSIVE split(_, _)
\* str.split(sep): the pieces between the occurrences of sep.
split(s, sep) ==
    IF \A i \in 1..Len(s) : s[i] # sep THEN <<s>>
    ELSE LET i == CHOOSE k \in 1..Len(s) :
                      s[k] = sep /\ \A j \in 1..(k - 1) : s[j] # sep
         IN <<SubSeq(s, 1, i - 1)>> \o split(SubSeq(s, i + 1, Len(s)), sep)

RECURSIVE join(_, _)
\* sep.join(parts)
join(parts, sep) ==
    IF parts = << >> THEN << >>
    ELSE IF Len(parts) = 1 THEN parts[1]
    ELSE parts[1] \o <<sep>> \o join(Tail(parts), sep)

startswith(s, c) == Len(s) >= 1 /\ s[1] = c

endswith(s, suffix) ==
    Len(s) >= Len(suffix)
    /\ SubSeq(s, Len(s) - Len(suffix) + 1, Len(s)) = suffix

(***************************************************************************)
(* Experiment Store: the directory tree under RUNS_DIR.  A path is the     *)
(* sequence of its segments below RUNS_DIR; << >> is RUNS_DIR itself.      *)
(***************************************************************************)
Root == << >>

IsSegment(seg) == seg # << >> /\ seg # <<".">>

\* The path the kernel resolves os.path.join(RUNS_DIR, name) to.
PathOf(name) == SelectSeq(split(name, "/"), IsSegment)

\* The name ends in "/" or "/.": it can only denote a directory.
MustBeDir(name) ==
    LET segs == split(name, "/") IN ~IsSegment(segs[Len(segs)])

IsPrefix(p, q) == Len(p) <= Len(q) /\ SubSeq(q, 1, Len(p)) = p

Prefixes(p) == {SubSeq(p, 1, k) : k \in 0..Len(p)}

\* os.path.exists(os.path.join(RUNS_DIR, name))
exists(name, ds, fs) ==
    \/ PathOf(name) \in ds
    \/ PathOf(name) \in DOMAIN fs /\ ~MustBeDir(name)

\* A variant that creates nothing.
makedirs_Nothing(p, ds) == ds

\* A variant that also lays out train/ and inference/ below the path.
makedirs_WithLayout(p, ds) ==
    ds \cup Prefixes(p) \cup {Append(p, <<"train">>), Append(p, <<"inference">>)}

\* os.makedirs(path, exist_ok=True): every missing directory of the path.
makedirs(p, ds) == ds \cup Prefixes(p)

\* A file in the way of os.makedirs raises.
makedirs_raises(p, fs) == \E q \in Prefixes(p) : q \in DOMAIN fs

\* list_non_hidden_files(RUNS_DIR): the entries of RUNS_DIR whose name does
\* not start with a dot.
list_non_hidden_files(ds, fs) ==
    {p[1] : p \in {q \in ds \cup DOMAIN fs : Len(q) = 1 /\ ~startswith(q[1], ".")}}

Restrict(f, S) == [x \in S |-> f[x]]

\* shutil.rmtree(path): the tree is emptied first, the directory itself is
\* removed last.  rmtree of a file or of a missing path raises at once; rmdir
\* of a name that ends in "." raises after the tree was emptied.
EndsInDot(name) ==
    LET segs == split(name, "/") IN segs[Len(segs)] = <<".">>

rmtree_raises(name, ds, fs) ==
    PathOf(name) \notin ds \/ EndsInDot(name)

\* A variant that empties the directory and leaves it in place.
rmtree_dirs_KeepTop(name, ds, fs) ==
    IF PathOf(name) \notin ds THEN ds
    ELSE {q \in ds : ~IsPrefix(PathOf(name), q) \/ q = PathOf(name)}

rmtree_dirs(name, ds, fs) ==
    IF PathOf(name) \notin ds THEN ds
    ELSE {q \in ds : ~IsPrefix(PathOf(name), q)
                     \/ (q = PathOf(name) /\ EndsInDot(name))}

rmtree_files(name, ds, fs) ==
    IF PathOf(name) \notin ds THEN fs
    ELSE Restrict(fs, {q \in DOMAIN fs : ~IsPrefix(PathOf(name), q)})

\* open(path, "w") and json.dump(content, f)
write(fs, p, content) ==
    [q \in DOMAIN fs \cup {p} |-> IF q = p THEN content ELSE fs[q]]

(***************************************************************************)
(* Accelerator Selector                                                    *)
(***************************************************************************)
MaxGpus == 2        \* devices the host reports at most

DeviceIds == [i \in 1..MaxGpus |-> <<ToString(i - 1)>>]

CsvHeader == <<"index", ",", " utilization.gpu [%]", ",", " memory.free [MiB]">>

CsvLine(id) == id \o <<",", " 0 %", ",", " 1024 MiB">>

\* stdout of the device query for the first k devices: header, one line per
\* device, final newline.
CsvReport(k) ==
    join(<<CsvHeader>> \o [i \in 1..k |-> CsvLine(DeviceIds[i])] \o <<<< >>>>, "\n")

\* The devices of a host with k devices, in report order.
Devices(k) == SubSeq(DeviceIds, 1, k)

\* stdout of the query: nothing when the tool is missing.
query_stdout(found, k) == IF found THEN CsvReport(k) ELSE << >>

RECURSIVE parse_lines(_, _)
\* A variant that takes the header row for a device.
parse_lines_KeepHeader(lines, i) ==
    IF i > Len(lines) THEN << >>
    ELSE IF lines[i] = << >> THEN parse_lines(lines, i + 1)
    ELSE <<split(lines[i], ",")[1]>> \o parse_lines(lines, i + 1)

\* The loop over enumerate(lines) of select_gpus, from index i on.
parse_lines(lines, i) ==
    IF i > Len(lines) THEN << >>
    ELSE IF i = 1 \/ lines[i] = << >> THEN parse_lines(lines, i + 1)
    ELSE <<split(lines[i], ",")[1]>> \o parse_lines(lines, i + 1)

\* lst_available_gpus as built from res2.stdout
parse_gpus(stdout) == parse_lines(split(stdout, "\n"), 1)

RECURSIVE remove(_, _)
\* list.remove(x): the list without the first occurrence of x.
remove(lst, x) ==
    IF lst = << >> THEN << >>
    ELSE IF lst[1] = x THEN Tail(lst)
    ELSE <<lst[1]>> \o remove(Tail(lst), x)

Range(f) == {f[i] : i \in DOMAIN f}

\* Lines the operator types at the GPU prompt.
GpuTokens == {<<"F">>, <<"7">>} \cup Range(DeviceIds)

\* The value select_gpus returns: -1 (none = TRUE) or the list.
NoSelection == [none |-> TRUE, gpus |-> << >>]
Selection(lst) == [none |-> FALSE, gpus |-> lst]

\* Lines 59-65
select_gpus_result(sel) == IF Len(sel) = 0 THEN NoSelection ELSE Selection(sel)

\* A variant that accepts every line but F.
select_gpus_accepts_Any(lst, gpus) == TRUE

\* Line 52: gpus in lst_available_gpus
select_gpus_accepts(lst, gpus) == \E i \in 1..Len(lst) : lst[i] = gpus

\* A variant that leaves the chosen device in the list.
select_gpus_remaining_Keep(lst, gpus) == lst

\* Line 54: lst_available_gpus.remove(gpus)
select_gpus_remaining(lst, gpus) == remove(lst, gpus)

\* A variant that launches whatever select_gpus returned.
run_cryosamba_launches_Always(result) == TRUE

\* Line 829: selected_gpus != -1
run_cryosamba_launches(result) == ~result.none

(***************************************************************************)
(* Run Launcher                                                            *)
(***************************************************************************)
\* A variant that always starts one worker.
nproc_per_node_One(gpus) == 1

\* $(echo {gpus} | tr ',' '\n' | wc -l)
nproc_per_node(gpus) == Len(split(gpus, ","))

\* The command line of run_training / run_inference, by its parts.
Command(script, config, gpus, name) ==
    [CUDA_VISIBLE_DEVICES |-> gpus,
     nproc_per_node |-> nproc_per_node(gpus),
     script |-> script,
     config |-> name \o <<"/">> \o config]

TrainConfigFile == <<"train_config", ".", "json">>
InferenceConfigFile == <<"inference_config", ".", "json">>

run_training_cmd(gpus, name) == Command("train.py", TrainConfigFile, gpus, name)

run_inference_cmd(gpus, name) ==
    Command("inference.py", InferenceConfigFile, gpus, name)

(***************************************************************************)
(* Configuration Generator                                                 *)
(***************************************************************************)
DefaultDataPath == <<"data", "/", "sample_data", ".", "rec">>

DataFile == [isfile |-> TRUE, isdir |-> FALSE, entries |-> {}]
DataDir(entries) == [isfile |-> FALSE, isdir |-> TRUE, entries |-> entries]
DirEntry(name, isfile) == [name |-> name, isfile |-> isfile]

\* The files the operator's data paths can name; any other path is missing.
DataWorld ==
    (DefaultDataPath :> DataFile)
    @@ (<<"notes", ".", "txt">> :> DataFile)
    @@ (<<"stack">> :> DataDir({DirEntry(<<"a", ".", "tif">>, TRUE),
                                DirEntry(<<"readme">>, TRUE)}))
    @@ (<<"other">> :> DataDir({DirEntry(<<"b", ".", "mrc">>, TRUE),
                                DirEntry(<<"sub", ".", "tif">>, FALSE)}))

\* os.path.splitext(path)[1]: from the last dot of the last component on,
\* leading dots of the component not counted.
splitext_ext(path) ==
    LET segs == split(path, "/")
        base == segs[Len(segs)]
        dots == {i \in 1..Len(base) :
                    base[i] = "." /\ \E j \in 1..(i - 1) : base[j] # "."}
    IN IF dots = {} THEN << >>
       ELSE SubSeq(base, CHOOSE i \in dots : \A j \in dots : j <= i, Len(base))

\* A variant that counts every entry of the folder.
list_tif_files_AnyEntry(path) == {e.name : e \in DataWorld[path].entries}

list_tif_files(path) ==
    {e.name : e \in {x \in DataWorld[path].entries :
                        x.isfile /\ endswith(x.name, <<".", "tif">>)}}

\* One iteration of the data-path loop: "ok" or the message printed.
check_data_path(data_path) ==
    IF data_path \notin DOMAIN DataWorld THEN "data_path_invalid"
    ELSE IF DataWorld[data_path].isfile
         THEN IF splitext_ext(data_path) \notin
                    {<<".", "mrc">>, <<".", "rec">>, <<".", "tif">>}
              THEN "extension_not_supported"
              ELSE "ok"
    ELSE IF DataWorld[data_path].isdir
         THEN IF Cardinality(list_tif_files(data_path)) = 0
              THEN "no_tif_files"
              ELSE "ok"
    ELSE "silent"

\* The values generate_experiment holds before the advanced block.  Numbers
\* that are not integers, booleans and None are kept as written.
Defaults ==
    [ data_path |-> << >>,
      train_max_frame_gap |-> 0,
      num_iters |-> 0,
      batch_size |-> 0,
      inference_max_frame_gap |-> 0,
      tta |-> FALSE,
      early_stopping |-> FALSE,
      advanced |-> FALSE,
      train_data_patch_shape_y |-> 256,
      train_data_patch_shape_x |-> 256,
      train_data_patch_overlap_y |-> 16,
      train_data_patch_overlap_x |-> 16,
      train_data_split_ratio |-> "0.95",
      train_data_num_workers |-> 4,
      train_load_ckpt_path |-> "None",
      train_print_freq |-> 100,
      train_save_freq |-> 1000,
      train_val_freq |-> 500,
      train_warmup_iters |-> 300,
      train_mixed_precision |-> "True",
      train_compile |-> "False",
      optimizer_lr |-> "2e-4",
      optimizer_lr_decay |-> "0.99995",
      optimizer_weight_decay |-> "0.0001",
      optimizer_epsilon |-> "1e-08",
      optimizer_betas_0 |-> "0.9",
      optimizer_betas_1 |-> "0.999",
      biflownet_pyr_dim |-> 24,
      biflownet_pyr_level |-> 3,
      biflownet_corr_radius |-> 4,
      biflownet_kernel_size |-> 3,
      biflownet_warp_type |-> "soft_splat",
      biflownet_padding_mode |-> "reflect",
      biflownet_fix_params |-> "False",
      fusionnet_num_channels |-> 16,
      fusionnet_padding_mode |-> "reflect",
      fusionnet_fix_params |-> "False",
      inference_data_patch_shape_y |-> 256,
      inference_data_patch_shape_x |-> 256,
      inference_data_patch_overlap_y |-> 16,
      inference_data_patch_overlap_x |-> 16,
      inference_data_num_workers |-> 4,
      inference_output_format |-> "same",
      inference_load_ckpt_name |-> "None",
      inference_pyr_level |-> 3,
      inference_mixed_precision |-> "True",
      inference_compile |-> "False" ]

Adv(key, call) == [key |-> key, call |-> call]

\* The prompts of the advanced block, in order.  fn "ask_user" is the
\* unconstrained prompt: its default comes from Defaults.
Raw == Call("ask_user", 0, 0, 1, 0)

AdvancedParams ==
    << Adv("train_data_patch_shape_y", Call("ask_user_int_multiple", 32, 1024, 32, 256)),
       Adv("train_data_patch_shape_x", Call("ask_user_int_multiple", 32, 1024, 32, 256)),
       Adv("train_data_patch_overlap_y", Call("ask_user_int_multiple", 0, 512, 4, 16)),
       Adv("train_data_patch_overlap_x", Call("ask_user_int_multiple", 0, 512, 4, 16)),
       Adv("train_data_num_workers", Call("ask_user_int", 0, 512, 1, 4)),
       Adv("train_print_freq", Call("ask_user_int", 1, 10000, 1, 100)),
       Adv("train_save_freq", Call("ask_user_int", 1, 10000, 1, 1000)),
       Adv("train_val_freq", Call("ask_user_int", 1, 10000, 1, 500)),
       Adv("train_warmup_iters", Call("ask_user_int", 1, 10000, 1, 300)),
       Adv("train_mixed_precision", Raw),
       Adv("train_compile", Raw),
       Adv("optimizer_lr", Raw),
       Adv("optimizer_lr_decay", Raw),
       Adv("optimizer_weight_decay", Raw),
       Adv("optimizer_epsilon", Raw),
       Adv("optimizer_betas_0", Raw),
       Adv("optimizer_betas_1", Raw),
       Adv("biflownet_pyr_dim", Call("ask_user_int_multiple", 4, 128, 4, 24)),
       Adv("biflownet_pyr_level", Call("ask_user_int", 1, 20, 1, 3)),
       Adv("biflownet_corr_radius", Call("ask_user_int", 1, 20, 1, 4)),
       Adv("biflownet_kernel_size", Call("ask_user_int", 1, 20, 1, 3)),
       Adv("biflownet_warp_type", Raw),
       Adv("biflownet_padding_mode", Raw),
       Adv("biflownet_fix_params", Raw),
       Adv("fusionnet_num_channels", Call("ask_user_int_multiple", 4, 128, 4, 16)),
       Adv("fusionnet_padding_mode", Raw),
       Adv("fusionnet_fix_params", Raw),
       Adv("inference_data_patch_shape_y", Call("ask_user_int_multiple", 32, 1024, 32, 256)),
       Adv("inference_data_patch_shape_x", Call("ask_user_int_multiple", 32, 1024, 32, 256)),
       Adv("inference_data_patch_overlap_y", Call("ask_user_int_multiple", 0, 512, 4, 16)),
       Adv("inference_data_patch_overlap_x", Call("ask_user_int_multiple", 0, 512, 4, 16)),
       Adv("inference_data_num_workers", Call("ask_user_int", 0, 512, 1, 4)),
       Adv("inference_output_format", Raw),
       Adv("inference_pyr_level", Call("ask_user_int", 1, 20, 1, 3)),
       Adv("inference_mixed_precision", Raw),
       Adv("inference_compile", Raw) >>

\* One iteration of the prompt loop of a call record.
ask(call, tok) ==
    IF call.fn = "ask_user_int"
    THEN ask_user_int(tok, call.min_value, call.max_value, call.default)
    ELSE ask_user_int_multiple(tok, call.min_value, call.max_value,
                               call.multiple, call.default)

\* train_config and inference_config as generate_experiment assembles them
\* (nested groups flattened: group_key).
train_config(c, name) ==
    [ train_dir |-> name \o <<"/", "train">>,
      data_path |-> c.data_path,
      train_data_max_frame_gap |-> c.train_max_frame_gap,
      train_data_patch_shape |-> <<c.train_data_patch_shape_y, c.train_data_patch_shape_x>>,
      train_data_patch_overlap |-> <<c.train_data_patch_overlap_y, c.train_data_patch_overlap_x>>,
      train_data_split_ratio |-> c.train_data_split_ratio,
      train_data_batch_size |-> c.batch_size,
      train_data_num_workers |-> c.train_data_num_workers,
      train_num_iters |-> c.num_iters,
      train_load_ckpt_path |-> c.train_load_ckpt_path,
      train_print_freq |-> c.train_print_freq,
      train_save_freq |-> c.train_save_freq,
      train_val_freq |-> c.train_val_freq,
      train_warmup_iters |-> c.train_warmup_iters,
      train_mixed_precision |-> c.train_mixed_precision,
      train_compile |-> c.train_compile,
      train_do_early_stopping |-> c.early_stopping,
      optimizer_lr |-> c.optimizer_lr,
      optimizer_lr_decay |-> c.optimizer_lr_decay,
      optimizer_weight_decay |-> c.optimizer_weight_decay,
      optimizer_epsilon |-> c.optimizer_epsilon,
      optimizer_betas |-> <<c.optimizer_betas_0, c.optimizer_betas_1>>,
      biflownet_pyr_dim |-> c.biflownet_pyr_dim,
      biflownet_pyr_level |-> c.biflownet_pyr_level,
      biflownet_corr_radius |-> c.biflownet_corr_radius,
      biflownet_kernel_size |-> c.biflownet_kernel_size,
      biflownet_warp_type |-> c.biflownet_warp_type,
      biflownet_padding_mode |-> c.biflownet_padding_mode,
      biflownet_fix_params |-> c.biflownet_fix_params,
      fusionnet_num_channels |-> c.fusionnet_num_channels,
      fusionnet_padding_mode |-> c.fusionnet_padding_mode,
      fusionnet_fix_params |-> c.fusionnet_fix_params ]

inference_config(c, name) ==
    [ train_dir |-> name \o <<"/", "train">>,
      data_path |-> c.data_path,
      inference_dir |-> name \o <<"/", "inference">>,
      inference_data_max_frame_gap |-> c.inference_max_frame_gap,
      inference_data_patch_shape |-> <<c.inference_data_patch_shape_y, c.inference_data_patch_shape_x>>,
      inference_data_patch_overlap |-> <<c.inference_data_patch_overlap_y, c.inference_data_patch_overlap_x>>,
      inference_data_batch_size |-> c.batch_size,
      inference_data_num_workers |-> c.inference_data_num_workers,
      inference_output_format |-> c.inference_output_format,
      inference_load_ckpt_name |-> c.inference_load_ckpt_name,
      inference_pyr_level |-> c.inference_pyr_level,
      inference_mixed_precision |-> c.inference_mixed_precision,
      inference_TTA |-> c.tta,
      inference_compile |-> c.inference_compile ]

(***************************************************************************)
(* Spec: the interactive session.  Every action is one answer of the       *)
(* operator (or one exit of the external process) and everything the code  *)
(* does until it blocks again.                                             *)
(***************************************************************************)
fsVars == <<dirs, files>>
gpuVars == <<lst_available_gpus, select_gpus, reported, selected_gpus>>
procVars == <<proc, returncode>>
genVars == <<cfg, adv_index>>

\* Names the operator types at the experiment-name prompts.
E == <<"E">>
NameInputs ==
    { E, <<"e1">>, <<".", "h">>, <<".">>, <<"e1", "/">> \o TrainConfigFile }

MenuTokens == {<<"1">>, <<"2">>, <<"3">>, <<"4">>, <<"9">>}

\* Answers to a typer.confirm
ConfirmInputs == {<<"y">>, <<"n">>}

typer_confirm(answer) == answer = <<"y">>

\* Lines typed at the prompts of generate_experiment in a session.
DataPathInputs ==
    {<< >>, <<"nowhere">>, <<"notes", ".", "txt">>, <<"other">>, <<"stack">>}
TrainGapTokens == {<< >>, <<"4", "0">>, <<"x">>}
NumItersTokens == {<< >>, <<"4">>}
BatchSizeTokens == {<< >>, <<"7">>}
InferenceGapTokens == {<< >>, <<"4">>}
AdvancedTokens == {<< >>, <<"x">>}
RawTokens == {<< >>}

\* An unhandled exception or quit(): every frame is unwound.
Terminate(state, m) ==
    /\ pc' = state
    /\ depth' = 0
    /\ msg' = m

\* exit_screen()
exit_screen == Terminate("exited", "goodbye")

\* main_menu() up to its prompt, called at depth d.
main_menu_enter(d) ==
    /\ d + 1 <= MaxDepth
    /\ dirs' = IF Root \in dirs THEN dirs ELSE makedirs(Root, dirs)
    /\ msg' = IF list_non_hidden_files(dirs', files) = {}
              THEN "start_here" ELSE "main_menu"
    /\ pc' = "main_menu"
    /\ depth' = d + 1
    /\ UNCHANGED <<files, shown>>

\* show_exp_list() on the store (ds, fs)
show_exp_list(ds, fs) == shown' = <<list_non_hidden_files(ds, fs)>>

\* experiment_menu() up to its prompt, called at depth d.
experiment_menu_enter(d) ==
    /\ d + 1 <= MaxDepth
    /\ show_exp_list(dirs, files)
    /\ msg' = "experiment_manager"
    /\ pc' = "experiment_menu"
    /\ depth' = d + 1
    /\ UNCHANGED fsVars

\* A variant that leaves the session at once.
return_screen_enter_Exit(d) ==
    /\ d + 1 <= MaxDepth
    /\ pc' = "exited"
    /\ depth' = 0

\* return_screen() / return_screen_exp_manager() up to the confirmation.
return_screen_enter(d) ==
    /\ d + 1 <= MaxDepth
    /\ pc' = "return_screen"
    /\ depth' = d + 1

return_screen_exp_manager_enter(d) ==
    /\ d + 1 <= MaxDepth
    /\ pc' = "return_screen_exp_manager"
    /\ depth' = d + 1

\* A variant that always goes on to the name prompt.
run_cryosamba_no_experiments_Never(ds, fs) == FALSE

\* Line 809: len(exp_list) == 0
run_cryosamba_no_experiments(ds, fs) == list_non_hidden_files(ds, fs) = {}

\* run_cryosamba(m) up to its first prompt, called at depth d.
run_cryosamba_enter(m, d) ==
    /\ mode' = m
    /\ dirs' = IF Root \in dirs THEN dirs ELSE makedirs(Root, dirs)
    /\ IF run_cryosamba_no_experiments(dirs', files)
       THEN /\ msg' = "no_existing_experiments"
            /\ return_screen_enter(d + 1)
            /\ UNCHANGED shown
       ELSE /\ d + 1 <= MaxDepth
            /\ shown' = <<list_non_hidden_files(dirs', files)>>
            /\ msg' = "run_cryosamba"
            /\ pc' = "run_cryosamba"
            /\ depth' = d + 1
    /\ UNCHANGED files

\* The locals of a leaf flow are dead once its closing choice is answered.
flow_ends ==
    /\ exp_name' = << >>
    /\ mode' = "none"
    /\ lst_available_gpus' = << >>
    /\ select_gpus' = << >>
    /\ reported' = << >>
    /\ selected_gpus' = << >>
    /\ returncode' = << >>

\* A variant that leaves the session on a token it does not know.
invalid_option_Exit == exit_screen /\ UNCHANGED <<fsVars, shown>>

\* Lines 679-680 and 747-748: the else branch of a menu's prompt loop prints
\* the error and the loop prompts again.
invalid_option ==
    /\ msg' = "invalid_option"
    /\ UNCHANGED <<pc, depth, fsVars, shown>>

\* No call of setup_environment is under way.
EnvIdle ==
    /\ envPc = "idle" /\ env_name = << >> /\ env_run_cmd = "" /\ envIter = 0
    /\ envRuns = << >> /\ envEcho = "none"

Init ==
    /\ askCall = NoCall /\ askPc = "idle" /\ askTok = << >> /\ askRet = << >>
    /\ askMsg = "none" /\ askPrompts = 0
    /\ EnvIdle
    /\ pc = "start"
    /\ depth = 0
    /\ dirs \in {{}, {Root}}
    /\ files = << >>
    /\ exp_name = << >>
    /\ mode = "none"
    /\ cfg = Defaults
    /\ adv_index = 0
    /\ lst_available_gpus = << >>
    /\ select_gpus = << >>
    /\ reported = << >>
    /\ selected_gpus = << >>
    /\ proc = << >>
    /\ returncode = << >>
    /\ shown = << >>
    /\ input = << >>
    /\ msg = "none"

\* main(): clear_screen(), main_menu()
main ==
    /\ pc = "start"
    /\ main_menu_enter(1)
    /\ UNCHANGED <<exp_name, mode, genVars, gpuVars, procVars, input, askVars, envVars>>

\* The prompt loop of main_menu
main_menu ==
    /\ pc = "main_menu"
    /\ \E input_cmd \in MenuTokens :
         /\ input' = input_cmd
         /\ IF input_cmd = <<"1">>
            THEN experiment_menu_enter(depth) /\ UNCHANGED mode
            ELSE IF input_cmd = <<"2">>
            THEN run_cryosamba_enter("Training", depth)
            ELSE IF input_cmd = <<"3">>
            THEN run_cryosamba_enter("Inference", depth)
            ELSE IF input_cmd = <<"4">>
            THEN exit_screen /\ UNCHANGED <<fsVars, shown, mode>>
            ELSE invalid_option /\ UNCHANGED mode
    /\ UNCHANGED <<exp_name, genVars, gpuVars, procVars, askVars, envVars>>

\* return_screen(): "Return to main menu?"
return_screen ==
    /\ pc = "return_screen"
    /\ \E answer \in ConfirmInputs :
         /\ input' = answer
         /\ IF typer_confirm(answer)
            THEN main_menu_enter(depth)
            ELSE exit_screen /\ UNCHANGED <<fsVars, shown>>
    /\ flow_ends
    /\ UNCHANGED <<genVars, proc, askVars, envVars>>

\* return_screen_exp_manager(): "Return to experiment manager?"
return_screen_exp_manager ==
    /\ pc = "return_screen_exp_manager"
    /\ \E answer \in ConfirmInputs :
         /\ input' = answer
         /\ IF typer_confirm(answer)
            THEN experiment_menu_enter(depth)
            ELSE /\ return_screen_enter(depth)
                 /\ UNCHANGED <<fsVars, shown, msg>>
    /\ flow_ends
    /\ UNCHANGED <<genVars, proc, askVars, envVars>>

\* A variant that always enters the delete flow.
experiment_menu_nothing_to_delete_Never(ds, fs) == FALSE

\* Lines 736-737: len(exp_list) == 0
experiment_menu_nothing_to_delete(ds, fs) == list_non_hidden_files(ds, fs) = {}

\* The prompt loop of experiment_menu
experiment_menu ==
    /\ pc = "experiment_menu"
    /\ \E input_cmd \in MenuTokens :
         /\ input' = input_cmd
         /\ IF input_cmd = <<"1">>
            THEN /\ depth + 1 <= MaxDepth
                 /\ pc' = "setup_experiment"
                 /\ depth' = depth + 1
                 /\ msg' = "new_experiment_setup"
                 /\ UNCHANGED <<fsVars, shown>>
            ELSE IF input_cmd = <<"2">>
            THEN IF experiment_menu_nothing_to_delete(dirs, files)
                 THEN /\ msg' = "no_experiments_to_delete"
                      /\ UNCHANGED <<pc, depth, fsVars, shown>>
                 ELSE /\ depth + 1 <= MaxDepth
                      /\ pc' = "delete_experiment"
                      /\ depth' = depth + 1
                      /\ msg' = "experiment_deletion"
                      /\ show_exp_list(dirs, files)
                      /\ UNCHANGED fsVars
            ELSE IF input_cmd = <<"3">>
            THEN main_menu_enter(depth)
            ELSE invalid_option
    /\ UNCHANGED <<exp_name, mode, genVars, gpuVars, procVars, askVars, envVars>>

\* A variant that never refuses a name.
setup_experiment_refuses_Never(name, ds, fs) == FALSE

\* Line 761: the name is refused when its path exists.
setup_experiment_refuses(name, ds, fs) == exists(name, ds, fs)

\* The prompt loop of setup_experiment
setup_experiment ==
    /\ pc = "setup_experiment"
    /\ \E name \in NameInputs :
         /\ input' = name
         /\ exp_name' = name
         /\ IF name = E
            THEN /\ return_screen_exp_manager_enter(depth)
                 /\ UNCHANGED <<msg, genVars>>
            ELSE IF setup_experiment_refuses(name, dirs, files)
            THEN /\ msg' = "already_exists"
                 /\ UNCHANGED <<pc, depth, genVars>>
            ELSE /\ depth + 1 <= MaxDepth
                 /\ cfg' = Defaults
                 /\ adv_index' = 0
                 /\ msg' = "setting_up_new_experiment"
                 /\ pc' = "gen_data_path"
                 /\ depth' = depth + 1
    /\ UNCHANGED <<fsVars, shown, mode, gpuVars, procVars, askVars, envVars>>

\* What a step of generate_experiment before line 560 leaves alone.
gen_frame == UNCHANGED <<depth, fsVars, shown, exp_name, mode, gpuVars,
                         procVars, askVars, envVars>>

\* generate_experiment: the data-path loop
generate_experiment_data_path ==
    /\ pc = "gen_data_path"
    /\ \E tok \in DataPathInputs :
         LET data_path == IF tok = << >> THEN DefaultDataPath ELSE tok
             r == check_data_path(data_path)
         IN /\ input' = tok
            /\ cfg' = [cfg EXCEPT !.data_path = data_path]
            /\ pc' = IF r = "ok" THEN "gen_train_max_frame_gap" ELSE pc
            /\ msg' = IF r \in {"ok", "silent"} THEN msg ELSE r
    /\ UNCHANGED adv_index
    /\ gen_frame

\* An integer prompt of generate_experiment: key is set when o returns.
gen_int_prompt(o, key, next) ==
    /\ cfg' = IF o.ret # << >> THEN [cfg EXCEPT ![key] = o.ret[1]] ELSE cfg
    /\ pc' = IF o.ret # << >> THEN next ELSE pc
    /\ msg' = IF o.msg = "none" THEN msg ELSE o.msg
    /\ UNCHANGED adv_index
    /\ gen_frame

generate_experiment_train_max_frame_gap ==
    /\ pc = "gen_train_max_frame_gap"
    /\ \E tok \in TrainGapTokens :
         /\ input' = tok
         /\ gen_int_prompt(ask_user_int(tok, 1, 40, 3),
                           "train_max_frame_gap", "gen_num_iters")

generate_experiment_num_iters ==
    /\ pc = "gen_num_iters"
    /\ \E tok \in NumItersTokens :
         /\ input' = tok
         /\ gen_int_prompt(ask_user_int(tok, 1000, 200000, 50000),
                           "num_iters", "gen_batch_size")

generate_experiment_batch_size ==
    /\ pc = "gen_batch_size"
    /\ \E tok \in BatchSizeTokens :
         /\ input' = tok
         /\ gen_int_prompt(ask_user_int_multiple(tok, 2, 256, 2, 8),
                           "batch_size", "gen_inference_max_frame_gap")

\* A variant that always offers 6.
inference_max_frame_gap_default_Six(train_max_frame_gap) == 6

\* Line 351: the default offered for the inference maximum frame gap.
inference_max_frame_gap_default(train_max_frame_gap) == train_max_frame_gap * 2

generate_experiment_inference_max_frame_gap ==
    /\ pc = "gen_inference_max_frame_gap"
    /\ \E tok \in InferenceGapTokens :
         /\ input' = tok
         /\ gen_int_prompt(
                ask_user_int(tok, 1, 80,
                    inference_max_frame_gap_default(cfg.train_max_frame_gap)),
                "inference_max_frame_gap", "gen_tta")

\* A typer.confirm of generate_experiment
gen_confirm(key, next) ==
    /\ \E answer \in ConfirmInputs :
         /\ input' = answer
         /\ cfg' = [cfg EXCEPT ![key] = typer_confirm(answer)]
    /\ pc' = next
    /\ UNCHANGED <<msg, adv_index>>
    /\ gen_frame

generate_experiment_tta ==
    /\ pc = "gen_tta"
    /\ gen_confirm("tta", "gen_early_stopping")

generate_experiment_early_stopping ==
    /\ pc = "gen_early_stopping"
    /\ gen_confirm("early_stopping", "gen_advanced")

\* An OSError raised by one of the filesystem steps of lines 560-567: none,
\* at the first open, inside the first json.dump, at the second open, inside
\* the second json.dump.  Nothing catches it.
SaveFaults ==
    {"none", "open_train", "dump_train", "open_inference", "dump_inference"}

\* The content of a file whose json.dump did not finish.
Partial == [partial |-> TRUE]

\* Lines 563-567: the files after the two writes, cut short by the fault.
save_files(fs, name, c, fault) ==
    LET t == Append(PathOf(name), TrainConfigFile)
        i == Append(PathOf(name), InferenceConfigFile)
    IN IF fault = "open_train" THEN fs
       ELSE IF fault = "dump_train" THEN write(fs, t, Partial)
       ELSE IF fault = "open_inference" THEN write(fs, t, train_config(c, name))
       ELSE IF fault = "dump_inference"
       THEN write(write(fs, t, train_config(c, name)), i, Partial)
       ELSE write(write(fs, t, train_config(c, name)),
                  i, inference_config(c, name))

\* Lines 560-569, then the return to setup_experiment, which breaks out of
\* its loop and calls return_screen_exp_manager().
save_configs(c) ==
    IF makedirs_raises(PathOf(exp_name), files)
    THEN /\ Terminate("crashed", "exception")
         /\ UNCHANGED fsVars
    ELSE \E fault \in SaveFaults :
           /\ dirs' = makedirs(PathOf(exp_name), dirs)
           /\ files' = save_files(files, exp_name, c, fault)
           /\ IF fault = "none"
              THEN /\ msg' = "experiment_created"
                   /\ return_screen_exp_manager_enter(depth - 1)
              ELSE Terminate("crashed", "exception")

generate_experiment_advanced ==
    /\ pc = "gen_advanced"
    /\ \E answer \in ConfirmInputs :
         /\ input' = answer
         /\ IF typer_confirm(answer)
            THEN /\ cfg' = [cfg EXCEPT !.advanced = TRUE]
                 /\ adv_index' = 1
                 /\ pc' = "gen_advanced_params"
                 /\ msg' = "advanced_parameters"
                 /\ UNCHANGED <<depth, fsVars>>
            ELSE /\ save_configs(cfg)
                 /\ cfg' = Defaults
                 /\ adv_index' = 0
    /\ UNCHANGED <<shown, exp_name, mode, gpuVars, procVars, askVars, envVars>>

\* The advanced block: prompt number adv_index
generate_experiment_advanced_params ==
    /\ pc = "gen_advanced_params"
    /\ \E tok \in AdvancedTokens :
         LET a == AdvancedParams[adv_index]
             raw == a.call.fn = "ask_user"
             o == IF raw THEN Outcome(<< >>, "none", FALSE) ELSE ask(a.call, tok)
             done == raw \/ o.ret # << >>
             c == IF raw \/ o.ret = << >> THEN cfg
                  ELSE [cfg EXCEPT ![a.key] = o.ret[1]]
         IN /\ raw => tok \in RawTokens
            /\ input' = tok
            /\ IF ~done
               THEN /\ msg' = o.msg
                    /\ UNCHANGED <<pc, depth, fsVars, genVars>>
               ELSE IF adv_index < Len(AdvancedParams)
               THEN /\ cfg' = c
                    /\ adv_index' = adv_index + 1
                    /\ UNCHANGED <<pc, depth, fsVars, msg>>
               ELSE /\ save_configs(c)
                    /\ cfg' = Defaults
                    /\ adv_index' = 0
    /\ UNCHANGED <<shown, exp_name, mode, gpuVars, procVars, askVars, envVars>>

\* A variant that takes every name for an existing experiment.
delete_experiment_not_found_Never(name, ds, fs) == FALSE

\* Line 782: the name is reported missing when its path does not exist.
delete_experiment_not_found(name, ds, fs) == ~exists(name, ds, fs)

\* The prompt loop of delete_experiment: the name
delete_experiment ==
    /\ pc = "delete_experiment"
    /\ \E name \in NameInputs :
         /\ input' = name
         /\ exp_name' = name
         /\ IF name = E
            THEN /\ return_screen_exp_manager_enter(depth)
                 /\ UNCHANGED <<msg, shown>>
            ELSE IF delete_experiment_not_found(name, dirs, files)
            THEN /\ msg' = "not_found"
                 /\ show_exp_list(dirs, files)
                 /\ UNCHANGED <<pc, depth>>
            ELSE /\ msg' = "found"
                 /\ pc' = "delete_confirm"
                 /\ UNCHANGED <<depth, shown>>
    /\ UNCHANGED <<fsVars, mode, genVars, gpuVars, procVars, askVars, envVars>>

\* A variant that deletes whatever the operator answers.
delete_confirmed_Always(answer) == TRUE

\* Line 788: the answer that lets shutil.rmtree run.
delete_confirmed(answer) == typer_confirm(answer)

\* The prompt loop of delete_experiment: the confirmation
delete_experiment_confirm ==
    /\ pc = "delete_confirm"
    /\ \E answer \in ConfirmInputs :
         /\ input' = answer
         /\ IF delete_confirmed(answer)
            THEN /\ dirs' = rmtree_dirs(exp_name, dirs, files)
                 /\ files' = rmtree_files(exp_name, dirs, files)
                 /\ IF rmtree_raises(exp_name, dirs, files)
                    THEN /\ Terminate("crashed", "exception")
                         /\ UNCHANGED shown
                    ELSE /\ msg' = "successfully_deleted"
                         /\ show_exp_list(dirs', files')
                         /\ pc' = "delete_experiment"
                         /\ UNCHANGED depth
            ELSE /\ show_exp_list(dirs, files)
                 /\ pc' = "delete_experiment"
                 /\ UNCHANGED <<depth, fsVars, msg>>
    /\ UNCHANGED <<exp_name, mode, genVars, gpuVars, procVars, askVars, envVars>>

\* The prompt loop of run_cryosamba
run_cryosamba ==
    /\ pc = "run_cryosamba"
    /\ \E name \in NameInputs :
         /\ input' = name
         /\ exp_name' = name
         /\ IF name = E
            THEN /\ return_screen_enter(depth)
                 /\ UNCHANGED msg
            ELSE IF ~exists(name, dirs, files)
            THEN /\ msg' = "not_found"
                 /\ UNCHANGED <<pc, depth>>
            ELSE /\ depth + 1 <= MaxDepth
                 /\ msg' = "experiment_selected"
                 /\ pc' = "select_gpus_detail"
                 /\ depth' = depth + 1
    /\ UNCHANGED <<fsVars, shown, mode, genVars, gpuVars, procVars, askVars, envVars>>

\* select_gpus: the confirmation, then the device query on a host with k
\* devices, and the parsing of its output
select_gpus_query ==
    /\ pc = "select_gpus_detail"
    /\ \E answer \in ConfirmInputs :
         /\ input' = answer
         /\ msg' = IF typer_confirm(answer) THEN "gpu_information" ELSE msg
    /\ \E found \in BOOLEAN, k \in 0..MaxGpus :
         /\ reported' = IF found THEN Devices(k) ELSE << >>
         /\ lst_available_gpus' = parse_gpus(query_stdout(found, k))
    /\ select_gpus' = << >>
    /\ pc' = "select_gpus"
    /\ UNCHANGED <<depth, fsVars, shown, exp_name, mode, genVars,
                   selected_gpus, procVars, askVars, envVars>>

\* select_gpus: the selection loop; on F the function returns to
\* run_cryosamba, which starts run_training / run_inference or breaks out of
\* its loop and calls return_screen().
select_gpus_loop ==
    /\ pc = "select_gpus"
    /\ \E gpus \in GpuTokens :
         /\ input' = gpus
         /\ IF gpus = <<"F">>
            THEN /\ selected_gpus' = <<select_gpus_result(select_gpus)>>
                 /\ IF run_cryosamba_launches(select_gpus_result(select_gpus))
                    THEN /\ msg' = "gpus_selected"
                         /\ pc' = "run_confirm"
                         /\ UNCHANGED depth
                    ELSE /\ msg' = "no_gpus_selected"
                         /\ return_screen_enter(depth - 1)
                 /\ UNCHANGED <<lst_available_gpus, select_gpus>>
            ELSE IF select_gpus_accepts(lst_available_gpus, gpus)
            THEN /\ select_gpus' = Append(select_gpus, gpus)
                 /\ lst_available_gpus' =
                        select_gpus_remaining(lst_available_gpus, gpus)
                 /\ UNCHANGED <<pc, depth, msg, selected_gpus>>
            ELSE /\ msg' = "invalid_choice"
                 /\ UNCHANGED <<pc, depth, lst_available_gpus, select_gpus,
                                selected_gpus>>
    /\ UNCHANGED <<fsVars, shown, exp_name, mode, genVars, reported, procVars,
                   askVars, envVars>>

\* The command run_cryosamba has run_training / run_inference build.
run_cmd ==
    IF mode = "Training"
    THEN run_training_cmd(join(selected_gpus[1].gpus, ","), exp_name)
    ELSE run_inference_cmd(join(selected_gpus[1].gpus, ","), exp_name)

\* A variant that starts the process whatever the operator answers.
run_confirmed_Always(answer) == TRUE

\* Lines 86 and 108: the answer that lets subprocess.run start.
run_confirmed(answer) == typer_confirm(answer)

\* run_training / run_inference: "Do you want to start ...?"
run_confirm ==
    /\ pc = "run_confirm"
    /\ \E answer \in ConfirmInputs :
         /\ input' = answer
         /\ IF run_confirmed(answer)
            THEN /\ proc' = <<run_cmd>>
                 /\ pc' = "process_running"
                 /\ UNCHANGED <<depth, msg>>
            ELSE /\ msg' = "aborted"
                 /\ return_screen_enter(depth - 1)
                 /\ UNCHANGED proc
    /\ UNCHANGED <<fsVars, shown, exp_name, mode, genVars, gpuVars, returncode,
                   askVars, envVars>>

\* subprocess.run returns; run_training / run_inference return and
\* run_cryosamba calls return_screen().
process_exit ==
    /\ pc = "process_running"
    /\ \E rc \in {0, 1} : returncode' = <<rc>>
    /\ proc' = << >>
    /\ return_screen_enter(depth - 1)
    /\ UNCHANGED <<fsVars, shown, msg, input, exp_name, mode, genVars,
                   gpuVars, askVars, envVars>>

Next ==
    \/ main
    \/ main_menu
    \/ return_screen
    \/ return_screen_exp_manager
    \/ experiment_menu
    \/ setup_experiment
    \/ generate_experiment_data_path
    \/ generate_experiment_train_max_frame_gap
    \/ generate_experiment_num_iters
    \/ generate_experiment_batch_size
    \/ generate_experiment_inference_max_frame_gap
    \/ generate_experiment_tta
    \/ generate_experiment_early_stopping
    \/ generate_experiment_advanced
    \/ generate_experiment_advanced_params
    \/ delete_experiment
    \/ delete_experiment_confirm
    \/ run_cryosamba
    \/ select_gpus_query
    \/ select_gpus_loop
    \/ run_confirm
    \/ process_exit

Spec == Init /\ [][Next]_vars

(***************************************************************************)
(* SpecAsk                                                                 *)
(***************************************************************************)
InitAsk ==
    /\ askCall \in AskCalls /\ askPc = "prompt" /\ askTok = << >>
    /\ askRet = << >> /\ askMsg = "none" /\ askPrompts = 0
    /\ EnvIdle
    /\ pc = "start"
    /\ depth = 0
    /\ dirs = {}
    /\ files = << >>
    /\ exp_name = << >>
    /\ mode = "none"
    /\ cfg = Defaults
    /\ adv_index = 0
    /\ lst_available_gpus = << >>
    /\ select_gpus = << >>
    /\ reported = << >>
    /\ selected_gpus = << >>
    /\ proc = << >>
    /\ returncode = << >>
    /\ shown = << >>
    /\ input = << >>
    /\ msg = "none"

NextAsk == AskInt \/ AskIntMultiple

SpecAsk == InitAsk /\ [][NextAsk]_vars

(***************************************************************************)
(* SpecEnv: one call of setup_environment(env_name).                       *)
(***************************************************************************)
\* Environment names, by their pieces: cryosamba and samba.
EnvNames == {<<"cryo", "samba">>, <<"samba">>}

\* stdout of "conda env list": the environments conda knows, one per line.
CondaEnvLists ==
    {<< >>, <<"base">>, <<"base", "\n", "cryo", "samba">>,
     <<"base", "\n", "samba">>}

\* a in b, for strings
IsInfix(a, b) ==
    \E i \in 1..(Len(b) - Len(a) + 1) : SubSeq(b, i, i + Len(a) - 1) = a

\* is_env_active: f"{env_name}" in result.stdout
is_env_active(name, stdout) == IsInfix(name, stdout)

\* Answers to "Enter (y/n): "
EnvResponses == {"y", "n", "Y", "N", "yes", "x"}

\* subprocess.run(command): the exit status is not looked at.
Ran(command, rc) == [command |-> command, rc |-> rc]

\* setup_environment up to the prompt "Enter (y/n): "
setup_environment ==
    /\ envPc = "start"
    /\ \E stdout \in CondaEnvLists, rc1 \in {0, 1}, rc2 \in {0, 1} :
         IF is_env_active(env_name, stdout)
         THEN /\ envEcho' = "exists"
              /\ envRuns' = <<Ran("activate", rc1)>>
              /\ envPc' = "done"
         ELSE /\ envEcho' = "instructions"
              /\ envRuns' = <<Ran("create", rc1), Ran("activate", rc2)>>
              /\ envPc' = "prompt"
    /\ UNCHANGED <<env_name, env_run_cmd, envIter, askVars, navVars>>

\* Line 217: run_cmd = typer.prompt("Enter (y/n): ")
setup_environment_prompt ==
    /\ envPc = "prompt"
    /\ \E answer \in EnvResponses : env_run_cmd' = answer
    /\ envPc' = "loop"
    /\ UNCHANGED <<env_name, envIter, envRuns, envEcho, askVars, navVars>>

\* Lines 218-224: one iteration of the while True loop
setup_environment_loop ==
    /\ envPc = "loop"
    /\ IF env_run_cmd = "n"
       THEN /\ envEcho' = "install_command"
            /\ envPc' = "done"
            /\ UNCHANGED <<envRuns, envIter>>
       ELSE IF env_run_cmd = "y"
       THEN /\ \E rc \in {0, 1} : envRuns' = Append(envRuns, Ran("install", rc))
            /\ envPc' = "done"
            /\ UNCHANGED <<envEcho, envIter>>
       ELSE /\ envIter < MaxIterations
            /\ envIter' = envIter + 1
            /\ UNCHANGED <<envPc, envRuns, envEcho>>
    /\ UNCHANGED <<env_name, env_run_cmd, askVars, navVars>>

InitEnv ==
    /\ askCall = NoCall /\ askPc = "idle" /\ askTok = << >> /\ askRet = << >>
    /\ askMsg = "none" /\ askPrompts = 0
    /\ envPc = "start" /\ env_name \in EnvNames /\ env_run_cmd = ""
    /\ envIter = 0 /\ envRuns = << >> /\ envEcho = "none"
    /\ pc = "start"
    /\ depth = 0
    /\ dirs = {}
    /\ files = << >>
    /\ exp_name = << >>
    /\ mode = "none"
    /\ cfg = Defaults
    /\ adv_index = 0
    /\ lst_available_gpus = << >>
    /\ select_gpus = << >>
    /\ reported = << >>
    /\ selected_gpus = << >>
    /\ proc = << >>
    /\ returncode = << >>
    /\ shown = << >>
    /\ input = << >>
    /\ msg = "none"

NextEnv ==
    \/ setup_environment
    \/ setup_environment_prompt
    \/ setup_environment_loop

SpecEnv == InitEnv /\ [][NextEnv]_vars

(***************************************************************************)
(* Properties                                                              *)
(***************************************************************************)
\* The value int() gives the line just typed at the collector's prompt.
AskValue == int(ask_user(askTok', askCall.default))

AskValueOk ==
    /\ AskValue # << >>
    /\ askCall.min_value <= AskValue[1]
    /\ AskValue[1] <= askCall.max_value

\* C1: ask_user_int_multiple returns v exactly when the line typed is an
\* integer v with min_value <= v <= max_value and v mod multiple = 0; every
\* other line leaves the call at its prompt, with nothing returned.
C1_AcceptIffInRangeMultiple ==
    [][ (askCall.fn = "ask_user_int_multiple" /\ askPrompts' = askPrompts + 1) =>
          IF AskValueOk /\ AskValue[1] % askCall.multiple = 0
          THEN askPc' = "returned" /\ askRet' = AskValue
          ELSE askPc' = "prompt" /\ askRet' = << >> ]_vars

\* A value is returned after a line that was in range but not a multiple.
C1_Witness ==
    /\ askCall.fn = "ask_user_int_multiple"
    /\ askPc = "returned"
    /\ askMsg = "multiple"
    /\ askPrompts >= 2

\* C2: in ask_user_int and ask_user_int_multiple a line that is not an integer
\* never raises to the caller: the format message is printed and the call
\* prompts again, at any retry; a returned value lies in
\* [min_value, max_value].
C2_FormatErrorRePrompts ==
    [][ askPrompts' = askPrompts + 1 =>
          /\ askPc' \in {"prompt", "returned"}
          /\ AskValue = << >> => (askPc' = "prompt" /\ askMsg' = "format")
          /\ askPc' = "returned" =>
                /\ askRet' # << >>
                /\ askCall.min_value <= askRet'[1]
                /\ askRet'[1] <= askCall.max_value ]_vars

\* ask_user_int returned a value after a format error.
C2_Witness ==
    /\ askCall.fn = "ask_user_int"
    /\ askPc = "returned"
    /\ askMsg = "format"

\* C3: at every prompt of the selection loop of select_gpus the available
\* and the selected identifiers are disjoint, together they are the
\* identifiers the query reported, and no identifier is selected twice.
C3_AvailableSelectedPartition ==
    pc = "select_gpus" =>
        /\ Range(lst_available_gpus) \cap Range(select_gpus) = {}
        /\ Range(lst_available_gpus) \cup Range(select_gpus) = Range(reported)
        /\ Cardinality(Range(select_gpus)) = Len(select_gpus)

\* One device is selected and another is still available.
C3_Witness ==
    /\ pc = "select_gpus"
    /\ Len(select_gpus) >= 1
    /\ Len(lst_available_gpus) >= 1

\* C4: select_gpus returns the identifiers in the order they were chosen; a
\* line that is not in the available list (already selected or unknown) is
\* rejected with a re-prompt and changes neither list.
C4_SelectionOrderAndRejection ==
    [][ pc = "select_gpus" =>
          /\ (input' # <<"F">> /\ input' \notin Range(lst_available_gpus)) =>
                /\ msg' = "invalid_choice"
                /\ pc' = "select_gpus"
                /\ UNCHANGED <<select_gpus, lst_available_gpus>>
          /\ (input' # <<"F">> /\ input' \in Range(lst_available_gpus)) =>
                select_gpus' = Append(select_gpus, input')
          /\ (input' = <<"F">> /\ select_gpus # << >>) =>
                selected_gpus' = <<Selection(select_gpus)>> ]_vars

\* "0" then "1" were chosen, "0" was typed again and refused.
C4_Witness ==
    /\ pc = "select_gpus"
    /\ select_gpus = << <<"0">>, <<"1">> >>
    /\ input = <<"0">>
    /\ msg = "invalid_choice"

\* C5: finishing the selection with no device selected returns the
\* no-selection result; run_cryosamba then starts no process and goes to the
\* return-to-main-menu choice.
C5_NoSelectionAbortsRun ==
    [][ /\ (pc = "select_gpus" /\ input' = <<"F">> /\ select_gpus = << >>) =>
              selected_gpus' = <<NoSelection>>
        /\ selected_gpus' = <<NoSelection>> =>
              (pc' = "return_screen" /\ proc' = << >>) ]_vars

\* Devices were reported, none was selected.
C5_Witness ==
    /\ selected_gpus = <<NoSelection>>
    /\ reported # << >>
    /\ pc = "return_screen"

\* C6 as stated: with zero devices reported the selector never prompts.
C6_Original == ~(pc = "select_gpus" /\ reported = << >>)

\* C6 (amended): with zero devices reported the selector still prompts;
\* both lists are empty, every line but F is refused with a re-prompt and F
\* returns the no-selection result.
C6_ZeroDevicesOnlyNoSelection ==
    [][ (pc = "select_gpus" /\ reported = << >>) =>
          /\ lst_available_gpus = << >>
          /\ select_gpus = << >>
          /\ IF input' = <<"F">>
             THEN selected_gpus' = <<NoSelection>> /\ pc' = "return_screen"
             ELSE /\ msg' = "invalid_choice"
                  /\ pc' = "select_gpus"
                  /\ UNCHANGED <<select_gpus, lst_available_gpus>> ]_vars

\* No device was reported and the operator is at the prompt again.
C6_Witness ==
    /\ pc = "select_gpus"
    /\ reported = << >>
    /\ msg = "invalid_choice"

GenLastPcs == {"gen_advanced", "gen_advanced_params"}

C8_ConfigsWriteOnce ==
    [][ /\ \A p \in (DOMAIN files) \cap (DOMAIN files') : files'[p] = files[p]
        /\ (pc = "setup_experiment" /\ input' # E
                /\ exists(input', dirs, files)) =>
              /\ msg' = "already_exists"
              /\ pc' = "setup_experiment"
              /\ UNCHANGED fsVars ]_vars

\* The name e1 was refused while its configs exist.
C8_Witness ==
    /\ pc = "setup_experiment"
    /\ msg = "already_exists"
    /\ input = <<"e1">>
    /\ << <<"e1">>, TrainConfigFile >> \in DOMAIN files

Removed == (dirs \ dirs') \cup ((DOMAIN files) \ (DOMAIN files'))

\* C9: something is removed from the store only by the step that answers
\* the confirmation of delete_experiment with yes, and only below the name
\* that was confirmed; when the operator declines the store is unchanged.
C9_RemovalNeedsConfirmation ==
    [][ /\ Removed # {} =>
              /\ pc = "delete_confirm"
              /\ typer_confirm(input')
              /\ \A p \in Removed : IsPrefix(PathOf(exp_name), p)
        /\ (pc = "delete_confirm" /\ ~typer_confirm(input')) =>
              UNCHANGED fsVars ]_vars

\* The operator declined to delete e1 and e1 is still there.
C9_Witness ==
    /\ pc = "delete_experiment"
    /\ msg = "found"
    /\ input = <<"n">>
    /\ exp_name = <<"e1">>
    /\ exists(exp_name, dirs, files)

\* C10: a name that does not exist, typed at the prompt of
\* delete_experiment, is reported as not found; the experiments root and
\* every experiment are unchanged.
C10_DeleteMissingReportsNotFound ==
    [][ (pc = "delete_experiment" /\ input' # E
            /\ ~exists(input', dirs, files)) =>
          /\ msg' = "not_found"
          /\ pc' = "delete_experiment"
          /\ UNCHANGED fsVars ]_vars

\* The missing name .h was reported while e1 exists.
C10_Witness ==
    /\ pc = "delete_experiment"
    /\ msg = "not_found"
    /\ input = <<".", "h">>
    /\ exists(<<"e1">>, dirs, files)
    /\ Root \in dirs

\* The directories directly under RUNS_DIR.
ExperimentDirs == {p \in dirs : Len(p) = 1}

\* The config document at path p is there and was written to its end.
CompletelyWritten(p) == p \in DOMAIN files /\ files[p] # Partial

\* C11: a directory exists directly under RUNS_DIR only if its training
\* config and its inference config have both been written completely, also
\* when a filesystem step of generate_experiment fails.
C11_ConfigsAtomic ==
    \A p \in ExperimentDirs :
        /\ CompletelyWritten(Append(p, TrainConfigFile))
        /\ CompletelyWritten(Append(p, InferenceConfigFile))

\* C12: while an external process runs, the config document its command
\* names has been written under the experiment store, and the accelerator
\* selection of the run has finished with at least one device.
C12_RunNeedsConfigAndDevices ==
    proc # << >> =>
        /\ exists(exp_name, dirs, files)
        /\ CompletelyWritten(PathOf(proc[1].config))
        /\ selected_gpus # << >>
        /\ ~selected_gpus[1].none
        /\ Len(selected_gpus[1].gpus) >= 1

\* C13: an external process is started only by the step that answers the
\* start question of run_training / run_inference with yes; when the operator
\* declines, no process is started, the abort is reported and the store is
\* unchanged.
C13_RunOnlyOnConfirmation ==
    [][ /\ (proc = << >> /\ proc' # << >>) =>
              (pc = "run_confirm" /\ typer_confirm(input'))
        /\ (pc = "run_confirm" /\ ~typer_confirm(input')) =>
              /\ proc' = << >>
              /\ msg' = "aborted"
              /\ UNCHANGED fsVars ]_vars

\* The operator declined to start the run on the selected device.
C13_Witness ==
    /\ pc = "return_screen"
    /\ msg = "aborted"
    /\ input = <<"n">>
    /\ proc = << >>
    /\ selected_gpus # << >>
    /\ ~selected_gpus[1].none

\* C14: the command of a running process names, as visible devices, exactly
\* the identifiers select_gpus returned, separated by commas in the order they
\* were selected, and its worker count is the number of those identifiers.
C14_CommandMatchesSelection ==
    proc # << >> =>
        /\ selected_gpus # << >>
        /\ selected_gpus[1].gpus # << >>
        /\ split(proc[1].CUDA_VISIBLE_DEVICES, ",") = selected_gpus[1].gpus
        /\ proc[1].nproc_per_node = Len(selected_gpus[1].gpus)

\* A run on devices 1 and 0, selected in that order.
C14_Witness ==
    /\ proc # << >>
    /\ selected_gpus = <<Selection(<< <<"1">>, <<"0">> >>)>>
    /\ proc[1].CUDA_VISIBLE_DEVICES = <<"1", ",", "0">>

\* C15: when the external process exits with a non-zero status the
\* navigator writes an error to the interactive surface, keeps running and
\* offers the return to the main menu.
C15_NonZeroExitLogged ==
    [][ (pc = "process_running" /\ returncode' # << >> /\ returncode'[1] # 0) =>
          /\ msg' # msg
          /\ pc' = "return_screen" ]_vars

\* The prompts of the leaf flows.
CreatePcs ==
    {"setup_experiment", "gen_data_path", "gen_train_max_frame_gap",
     "gen_num_iters", "gen_batch_size", "gen_inference_max_frame_gap",
     "gen_tta", "gen_early_stopping", "gen_advanced", "gen_advanced_params"}
DeletePcs == {"delete_experiment", "delete_confirm"}
RunPcs ==
    {"run_cryosamba", "select_gpus_detail", "select_gpus", "run_confirm",
     "process_running"}

\* A leaf flow is left only for its closing question, or by an exception
\* nothing catches.
LeafFlowsEndAtChoice ==
    /\ (pc \in CreatePcs \cup DeletePcs /\ pc' \notin CreatePcs \cup DeletePcs) =>
          pc' \in {"return_screen_exp_manager", "crashed"}
    /\ (pc \in RunPcs /\ pc' \notin RunPcs) => pc' = "return_screen"

\* C16 as stated: the closing question of the create and delete flows leads
\* to the experiment manager or to Exit, that of the run flows to the main
\* menu or to Exit.
C16_Original ==
    [][ /\ LeafFlowsEndAtChoice
        /\ pc = "return_screen_exp_manager" =>
              pc' = IF typer_confirm(input') THEN "experiment_menu" ELSE "exited"
        /\ pc = "return_screen" =>
              pc' = IF typer_confirm(input') THEN "main_menu" ELSE "exited" ]_vars

\* C16 (amended): the create and delete flows end with the question
\* "Return to experiment manager?"; yes leads to the experiment manager, no
\* leads to the question "Return to main menu?".  The run flows end with the
\* question "Return to main menu?"; there yes leads to the main menu and no
\* to Exit.
C16_LeafFlowsEndWithChoice ==
    [][ /\ LeafFlowsEndAtChoice
        /\ pc = "return_screen_exp_manager" =>
              pc' = IF typer_confirm(input') THEN "experiment_menu"
                    ELSE "return_screen"
        /\ pc = "return_screen" =>
              pc' = IF typer_confirm(input') THEN "main_menu" ELSE "exited" ]_vars

\* After a creation the operator declined the return to the experiment
\* manager and is asked about the main menu.
C16_Witness ==
    /\ pc = "return_screen"
    /\ input = <<"n">>
    /\ msg = "experiment_created"

\* C17: in the main menu a token other than 1, 2, 3, 4 and in the
\* experiment manager a token other than 1, 2, 3 prints the error and leaves
\* the session at the same prompt, with the store and the call stack
\* unchanged; this holds at every such token, however many came before.
C17_UnrecognizedTokenLoops ==
    [][ /\ (pc = "main_menu"
                /\ input' \notin {<<"1">>, <<"2">>, <<"3">>, <<"4">>}) =>
              /\ msg' = "invalid_option"
              /\ UNCHANGED <<pc, depth, fsVars>>
        /\ (pc = "experiment_menu"
                /\ input' \notin {<<"1">>, <<"2">>, <<"3">>}) =>
              /\ msg' = "invalid_option"
              /\ UNCHANGED <<pc, depth, fsVars>> ]_vars

\* The token 4 was refused in the experiment manager while e1 exists.
C17_Witness ==
    /\ pc = "experiment_menu"
    /\ msg = "invalid_option"
    /\ input = <<"4">>
    /\ exists(<<"e1">>, dirs, files)

\* Choosing the delete option while no experiment is listed keeps the
\* session in the experiment manager, and the delete flow is entered only
\* while at least one experiment is listed.
DeleteEntryGuarded ==
    /\ (pc = "experiment_menu" /\ input' = <<"2">>
            /\ list_non_hidden_files(dirs, files) = {}) =>
          /\ msg' = "no_experiments_to_delete"
          /\ UNCHANGED <<pc, depth, fsVars>>
    /\ (pc \notin DeletePcs /\ pc' \in DeletePcs) =>
          /\ pc = "experiment_menu"
          /\ list_non_hidden_files(dirs, files) # {}

\* C18 as stated: the entry is guarded and the delete flow never asks for a
\* name while no experiment is listed.
C18_Original ==
    [][ /\ DeleteEntryGuarded
        /\ pc' = "delete_experiment" =>
              list_non_hidden_files(dirs', files') # {} ]_vars

\* C18 (amended): the entry is guarded; inside the flow the name is asked
\* again after every answer but E, also after the deletion that leaves no
\* experiment listed.
C18_DeleteEntryNeedsExperiment ==
    [][ /\ DeleteEntryGuarded
        /\ (pc \in DeletePcs /\ pc' \notin {"return_screen_exp_manager", "crashed"}) =>
              pc' \in DeletePcs
        /\ (pc = "delete_confirm" /\ pc' # "crashed") =>
              pc' = "delete_experiment" ]_vars

\* The last experiment was deleted and the flow asks for a name again.
C18_Witness ==
    /\ pc = "delete_experiment"
    /\ msg = "successfully_deleted"
    /\ list_non_hidden_files(dirs, files) = {}

\* The path typed at the data-path prompt (the default on an empty line).
DataPathTyped == IF input' = << >> THEN DefaultDataPath ELSE input'

\* The path exists and is a file with a supported extension or a folder that
\* holds at least one file whose name ends in .tif.
DataPathAcceptable(p) ==
    /\ p \in DOMAIN DataWorld
    /\ \/ /\ DataWorld[p].isfile
          /\ splitext_ext(p) \in {<<".", "mrc">>, <<".", "rec">>, <<".", "tif">>}
       \/ /\ DataWorld[p].isdir
          /\ \E x \in DataWorld[p].entries :
                x.isfile /\ endswith(x.name, <<".", "tif">>)

\* C19: the data-path prompt of generate_experiment goes on to the next
\* prompt with the path typed exactly when the path exists and is a file
\* with extension .mrc, .rec or .tif or a folder with at least one .tif file;
\* any other path leaves the wizard at the data-path prompt.
C19_DataPathAcceptedIffValid ==
    [][ pc = "gen_data_path" =>
          IF DataPathAcceptable(DataPathTyped)
          THEN pc' = "gen_train_max_frame_gap" /\ cfg'.data_path = DataPathTyped
          ELSE /\ pc' = "gen_data_path"
               /\ msg' \in {"data_path_invalid", "extension_not_supported",
                             "no_tif_files"}
               /\ UNCHANGED <<depth, fsVars>> ]_vars

\* A folder without .tif files was refused, then a folder with one was
\* accepted.
C19_Witness ==
    /\ pc = "gen_train_max_frame_gap"
    /\ cfg.data_path = <<"stack">>
    /\ msg = "no_tif_files"

\* C20: the training maximum frame gap accepted lies in 1..40 and is 3 on
\* an empty line; the batch size is 8 on an empty line; an empty line at the
\* inference maximum frame gap yields twice the training value, which lies
\* in 1..80; the values collected are the values written to the two configs.
C20_InferenceGapDefaultIsTwice ==
    [][ /\ (pc = "gen_train_max_frame_gap" /\ pc' # pc) =>
              /\ cfg'.train_max_frame_gap \in 1..40
              /\ input' = << >> => cfg'.train_max_frame_gap = 3
        /\ (pc = "gen_batch_size" /\ input' = << >>) =>
              (cfg'.batch_size = 8 /\ pc' # pc)
        /\ (pc = "gen_inference_max_frame_gap" /\ input' = << >>) =>
              /\ cfg'.inference_max_frame_gap = 2 * cfg.train_max_frame_gap
              /\ cfg'.inference_max_frame_gap \in 1..80
              /\ pc' = "gen_tta"
        /\ (pc \in GenLastPcs /\ pc' = "return_screen_exp_manager") =>
              LET t == files'[Append(PathOf(exp_name), TrainConfigFile)]
                  i == files'[Append(PathOf(exp_name), InferenceConfigFile)]
              IN /\ t.train_data_max_frame_gap = cfg.train_max_frame_gap
                 /\ t.train_data_batch_size = cfg.batch_size
                 /\ i.inference_data_max_frame_gap = cfg.inference_max_frame_gap
                 /\ i.inference_data_batch_size = cfg.batch_size ]_vars

\* e1 was created with every default and without the advanced block, and a
\* second experiment with the training gap 40 and the default inference gap.
C20_Witness ==
    /\ << <<"e1">>, TrainConfigFile >> \in DOMAIN files
    /\ << <<"e1">>, InferenceConfigFile >> \in DOMAIN files
    /\ files[<< <<"e1">>, TrainConfigFile >>] # Partial
    /\ files[<< <<"e1">>, InferenceConfigFile >>] # Partial
    /\ files[<< <<"e1">>, TrainConfigFile >>].train_data_batch_size = 8
    /\ files[<< <<"e1">>, TrainConfigFile >>].train_data_max_frame_gap = 3
    /\ files[<< <<"e1">>, InferenceConfigFile >>].inference_data_max_frame_gap = 6
    /\ << <<".", "h">>, InferenceConfigFile >> \in DOMAIN files
    /\ files[<< <<".", "h">>, InferenceConfigFile >>] # Partial
    /\ files[<< <<".", "h">>, InferenceConfigFile >>].inference_data_max_frame_gap = 80

\* The step on which generate_experiment returns to setup_experiment.
CreateCompletes == pc \in GenLastPcs /\ pc' = "return_screen_exp_manager"

\* The two config documents of exp_name are in the store after the step,
\* written to their end.
ConfigsWritten ==
    LET p == PathOf(exp_name) IN
    /\ p \in dirs'
    /\ Append(p, TrainConfigFile) \in DOMAIN files'
    /\ files'[Append(p, TrainConfigFile)] # Partial
    /\ Append(p, InferenceConfigFile) \in DOMAIN files'
    /\ files'[Append(p, InferenceConfigFile)] # Partial

\* C21 as stated: when the create flow completes, the experiment's directory
\* holds train/, inference/ and the two config documents.
C21_Original ==
    [][ CreateCompletes =>
          /\ ConfigsWritten
          /\ Append(PathOf(exp_name), <<"train">>) \in dirs'
          /\ Append(PathOf(exp_name), <<"inference">>) \in dirs' ]_vars

\* C21 (amended): when the create flow completes, the experiment's directory
\* holds the two config documents and nothing named train or inference; the
\* two directories are only named in the configs, as train_dir and
\* inference_dir.
C21_CreateWritesConfigsOnly ==
    [][ CreateCompletes =>
          LET p == PathOf(exp_name) IN
          /\ ConfigsWritten
          /\ \A d \in {<<"train">>, <<"inference">>} :
                Append(p, d) \notin dirs' \cup DOMAIN files'
          /\ files'[Append(p, TrainConfigFile)].train_dir
                = exp_name \o <<"/", "train">>
          /\ files'[Append(p, InferenceConfigFile)].inference_dir
                = exp_name \o <<"/", "inference">> ]_vars

\* e1 was created: its directory holds exactly the two configs.
C21_Witness ==
    /\ pc = "return_screen_exp_manager"
    /\ msg = "experiment_created"
    /\ exp_name = <<"e1">>
    /\ {q \in dirs \cup DOMAIN files : Len(q) = 2 /\ q[1] = <<"e1">>}
          = {<< <<"e1">>, TrainConfigFile >>, << <<"e1">>, InferenceConfigFile >>}

\* C22: a missing experiments root is created by the first screen; the
\* root exists whenever the experiment manager is entered or waits at its
\* prompt, after any creations and deletions; on entry the screen shows the
\* listing of the store, which is empty for a root that holds nothing.
C22_RootExistsInExperimentManager ==
    [][ /\ Root \notin dirs => (dirs' = {Root} /\ files' = << >>)
        /\ pc = "experiment_menu" => Root \in dirs
        /\ (pc # "experiment_menu" /\ pc' = "experiment_menu") =>
              /\ Root \in dirs'
              /\ shown' = <<list_non_hidden_files(dirs', files')>>
              /\ (dirs' = {Root} /\ files' = << >>) => shown' = <<{}>> ]_vars

\* The experiment manager shows no experiments for a root that holds
\* nothing.
C22_Witness ==
    /\ pc = "experiment_menu"
    /\ input = <<"1">>
    /\ msg = "experiment_manager"
    /\ dirs = {Root}
    /\ files = << >>
    /\ shown = <<{}>>

\* C23: the depth of nested screen invocations stays within the depth of a
\* call stack on which no screen occurs twice, whatever the operator does:
\* main, the seven screens and one function that is not a screen
\* (generate_experiment, select_gpus, run_training or run_inference).
C23_DepthBounded ==
    LET screens == {"main_menu", "experiment_menu", "setup_experiment",
                    "delete_experiment", "run_cryosamba", "return_screen",
                    "return_screen_exp_manager"}
    IN  depth <= Cardinality(screens) + 2

\* C24: choosing a run option while no experiment is listed leads to the
\* question of return_screen, with no device selected and no process
\* started; the prompts of run_cryosamba are entered only from the main menu
\* and only while an experiment is listed; and no screen returns to its
\* caller: the call stack never shrinks unless the session ends.
C24_EmptyStoreSkipsRun ==
    [][ /\ (pc = "main_menu" /\ input' \in {<<"2">>, <<"3">>}
                /\ list_non_hidden_files(dirs', files') = {}) =>
              /\ pc' = "return_screen"
              /\ msg' = "no_existing_experiments"
              /\ proc' = << >>
              /\ UNCHANGED gpuVars
        /\ (pc \notin RunPcs /\ pc' \in RunPcs) =>
              /\ pc = "main_menu"
              /\ pc' = "run_cryosamba"
              /\ list_non_hidden_files(dirs', files') # {}
        /\ depth' < depth => pc' \in {"exited", "crashed"} ]_vars

\* Run training was chosen with an empty store: the operator is asked
\* about the main menu.
C24_Witness ==
    /\ pc = "return_screen"
    /\ msg = "no_existing_experiments"
    /\ mode = "Training"
    /\ input = <<"2">>
    /\ list_non_hidden_files(dirs, files) = {}

\* C25: the name of an experiment the create flow has just completed is in
\* the listing list_non_hidden_files gives of the store.
C25_CreatedIsListed ==
    [][ CreateCompletes =>
          /\ exists(exp_name, dirs', files')
          /\ exp_name \in list_non_hidden_files(dirs', files') ]_vars

\* C26: a confirmed deletion of exp_name removes exp_name and leaves the
\* experiments root and every entry of every other experiment as it was.
C26_DeleteRemovesExactlyOne ==
    [][ (pc = "delete_confirm" /\ typer_confirm(input')) =>
          /\ ~exists(exp_name, dirs', files')
          /\ Root \in dirs'
          /\ \A q \in dirs : (Len(q) >= 1 /\ q[1] # exp_name) => q \in dirs'
          /\ \A q \in DOMAIN files : q[1] # exp_name =>
                (q \in DOMAIN files' /\ files'[q] = files[q]) ]_vars

\* C27: the y/n loop of setup_environment ends for every answer.  The
\* answer is read once, before the loop, so the loop ends exactly when its
\* first iteration leaves it: every iteration leaves the loop.
C27_YesNoLoopTerminates ==
    [][ envPc = "loop" => envPc' = "done" ]_vars

====
